---------------------------- MODULE Spec2Model ----------------------------
(***************************************************************************)
(* Process bootstrap of the OpenCodeUI desktop shell                       *)
(* (src-tauri/src/main.rs).                                                *)
(*                                                                         *)
(*   #![cfg_attr(not(debug_assertions), windows_subsystem = "windows")]    *)
(*   mod app;                                                              *)
(*   #[cfg_attr(mobile, tauri::mobile_entry_point)]                        *)
(*   fn main() { app::run(); }                                             *)
(*                                                                         *)
(* The build configuration (debug_assertions, target_os) is chosen when    *)
(* the binary is built; the two cfg_attr lines turn it into two attributes *)
(* of the produced binary.  At run time the operating system or the mobile *)
(* host invokes the entry operation, whose body is the single call         *)
(* app::run().  The module app is not part of the snapshot: its run() is   *)
(* modelled as an arbitrary computation that may go on, return or panic.   *)
(***************************************************************************)
EXTENDS Naturals, Sequences, FiniteSets

\* ---------------------------------------------------------------- bounds
\* Threads the operating system or the mobile host may pick as entry thread.
NumThreads == 2
\* Distinct failures the external runtime may raise.
NumFailures == 2
\* Steps of the external runtime that are told apart.
MaxRuntimeSteps == 3

Threads == 1..NumThreads
Failures == 1..NumFailures

\* ------------------------------------------------------- build configuration
\* Targets of a build.  windows_subsystem only means something to the Windows
\* linker; the cfg `mobile` is set for the Android and iOS targets.
TargetOS == {"windows", "macos", "linux", "android", "ios"}

\* cfg(mobile), the predicate of the attribute on fn main.
mobile(os) == os \in {"android", "ios"}

\* #![cfg_attr(not(debug_assertions), windows_subsystem = "windows")]:
\* the attribute is applied when debug_assertions is off; otherwise the
\* default subsystem, console, stays.
WindowsSubsystem_Inverted(debug) == IF debug THEN "windows" ELSE "console"

WindowsSubsystem_Unconditional(debug) == "windows"

WindowsSubsystem(debug) == IF ~debug THEN "windows" ELSE "console"

\* #[cfg_attr(mobile, tauri::mobile_entry_point)] fn main():
\* with cfg(mobile) the function is registered for the host, otherwise it is
\* the plain process entry point main.
EntryPoint_AttributeDropped(is_mobile) == "process_main"

EntryPoint(is_mobile) ==
    IF is_mobile THEN "mobile_entry_point" ELSE "process_main"

\* What a directly launched executable gets from the operating system: a
\* console window exists only for a Windows binary of the console subsystem.
ConsoleOnLaunch(os, subsystem) ==
    IF os = "windows" /\ subsystem = "console" THEN "attached" ELSE "none"

\* The one thing the body of main does: app::run() with no arguments.
AppRunCall == [op |-> "call", fn |-> "app::run", args |-> <<>>]

VARIABLES
    debug_assertions,   \* build: cfg(debug_assertions)
    target_os,          \* build: target of the build
    windows_subsystem,  \* binary: subsystem recorded by the linker
    entry_point,        \* binary: how fn main is registered
    pc,                 \* position of the entry operation
    invoked_via,        \* who invoked the entry operation: "none", "os", "host"
    console,            \* console window of the launched process
    entry_thread,       \* thread the entry operation was invoked on (0: none)
    call_thread,        \* thread app::run was called on (0: none)
    trace,              \* what the body of main has done, in order
    run_status,         \* app::run: not_called, executing, completed, panicked
    runtime_steps,      \* steps the external runtime has taken
    failure,            \* failure raised inside app::run (0: none)
    surfaced            \* failure that left the entry operation (0: none)

vars == <<debug_assertions, target_os, windows_subsystem, entry_point, pc,
          invoked_via, console, entry_thread, call_thread, trace, run_status,
          runtime_steps, failure, surfaced>>

build == <<debug_assertions, target_os, windows_subsystem, entry_point>>

\* State of the produced binary before it is started, for every build.
Init ==
    /\ debug_assertions \in BOOLEAN
    /\ target_os \in TargetOS
    /\ windows_subsystem = WindowsSubsystem(debug_assertions)
    /\ entry_point = EntryPoint(mobile(target_os))
    /\ pc = "NotStarted"
    /\ invoked_via = "none"
    /\ console = "none"
    /\ entry_thread = 0
    /\ call_thread = 0
    /\ trace = <<>>
    /\ run_status = "not_called"
    /\ runtime_steps = 0
    /\ failure = 0
    /\ surfaced = 0

\* ------------------------------------------------------------ entry dispatch
\* The operating system starts the process and calls the conventional main
\* on thread t; the console follows the binary's subsystem.
OsStartProcess(t) ==
    /\ pc = "NotStarted"
    /\ entry_point = "process_main"
    /\ pc' = "main"
    /\ invoked_via' = "os"
    /\ entry_thread' = t
    /\ console' = ConsoleOnLaunch(target_os, windows_subsystem)
    /\ UNCHANGED <<build, call_thread, trace, run_status, runtime_steps,
                   failure, surfaced>>

\* The mobile application host calls the registered entry point on thread t.
HostInvokeEntry(t) ==
    /\ pc = "NotStarted"
    /\ entry_point = "mobile_entry_point"
    /\ pc' = "main"
    /\ invoked_via' = "host"
    /\ entry_thread' = t
    /\ UNCHANGED <<build, console, call_thread, trace, run_status,
                   runtime_steps, failure, surfaced>>

\* ---------------------------------------------------------------- fn main
\* line 8, app::run(); the call is made on the thread main runs on.
main_call_app_run_WithArgs ==
    /\ pc = "main"
    /\ pc' = "app_run"
    /\ trace' = Append(trace, [op |-> "call", fn |-> "app::run",
                               args |-> <<"argv">>])
    /\ call_thread' = entry_thread
    /\ run_status' = "executing"
    /\ UNCHANGED <<build, invoked_via, console, entry_thread, runtime_steps,
                   failure, surfaced>>

main_call_app_run_AllocConsole ==
    /\ pc = "main"
    /\ pc' = "app_run"
    /\ trace' = Append(trace, AppRunCall)
    /\ call_thread' = entry_thread
    /\ run_status' = "executing"
    /\ windows_subsystem' = "console"
    /\ UNCHANGED <<debug_assertions, target_os, entry_point, invoked_via,
                   console, entry_thread, runtime_steps, failure, surfaced>>

main_call_app_run_Spawned ==
    /\ pc = "main"
    /\ pc' = "app_run"
    /\ trace' = Append(trace, AppRunCall)
    /\ \E t \in Threads : t # entry_thread /\ call_thread' = t
    /\ run_status' = "executing"
    /\ UNCHANGED <<build, invoked_via, console, entry_thread, runtime_steps,
                   failure, surfaced>>

main_call_app_run_DebugLog ==
    /\ pc = "main"
    /\ pc' = "app_run"
    /\ trace' = IF debug_assertions
                THEN <<[op |-> "log", fn |-> "eprintln", args |-> <<>>],
                       AppRunCall>>
                ELSE Append(trace, AppRunCall)
    /\ call_thread' = entry_thread
    /\ run_status' = "executing"
    /\ UNCHANGED <<build, invoked_via, console, entry_thread, runtime_steps,
                   failure, surfaced>>

main_call_app_run ==
    /\ pc = "main"
    /\ pc' = "app_run"
    /\ trace' = Append(trace, AppRunCall)
    /\ call_thread' = entry_thread
    /\ run_status' = "executing"
    /\ UNCHANGED <<build, invoked_via, console, entry_thread, runtime_steps,
                   failure, surfaced>>

\* line 9, the closing brace: main returns once app::run has returned.
main_return_Early ==
    /\ pc = "app_run"
    /\ run_status = "executing"
    /\ pc' = "returned"
    /\ UNCHANGED <<build, invoked_via, console, entry_thread, call_thread,
                   trace, run_status, runtime_steps, failure, surfaced>>

main_return_Loop ==
    /\ pc = "app_run"
    /\ run_status = "completed"
    /\ pc' = "main"
    /\ UNCHANGED <<build, invoked_via, console, entry_thread, call_thread,
                   trace, run_status, runtime_steps, failure, surfaced>>

main_return ==
    /\ pc = "app_run"
    /\ run_status = "completed"
    /\ pc' = "returned"
    /\ UNCHANGED <<build, invoked_via, console, entry_thread, call_thread,
                   trace, run_status, runtime_steps, failure, surfaced>>

\* lines 7-9 hold no catch_unwind and no Result: a panic raised inside
\* app::run unwinds through main as it is.
main_unwind_Caught ==
    /\ pc = "app_run"
    /\ run_status = "panicked"
    /\ pc' = "returned"
    /\ UNCHANGED <<build, invoked_via, console, entry_thread, call_thread,
                   trace, run_status, runtime_steps, failure, surfaced>>

main_unwind ==
    /\ pc = "app_run"
    /\ run_status = "panicked"
    /\ pc' = "unwound"
    /\ surfaced' = failure
    /\ UNCHANGED <<build, invoked_via, console, entry_thread, call_thread,
                   trace, run_status, runtime_steps, failure>>

\* ------------------------------------------- external runtime, app::run()
\* The runtime does some work of its own.
app_run_step ==
    /\ run_status = "executing"
    /\ runtime_steps < MaxRuntimeSteps
    /\ runtime_steps' = runtime_steps + 1
    /\ UNCHANGED <<build, pc, invoked_via, console, entry_thread,
                   call_thread, trace, run_status, failure, surfaced>>

\* The runtime's entry function returns.
app_run_complete ==
    /\ run_status = "executing"
    /\ run_status' = "completed"
    /\ UNCHANGED <<build, pc, invoked_via, console, entry_thread,
                   call_thread, trace, runtime_steps, failure, surfaced>>

\* The runtime fails with failure e.
app_run_panic(e) ==
    /\ run_status = "executing"
    /\ run_status' = "panicked"
    /\ failure' = e
    /\ UNCHANGED <<build, pc, invoked_via, console, entry_thread,
                   call_thread, trace, runtime_steps, surfaced>>

Next ==
    \/ \E t \in Threads : OsStartProcess(t)
    \/ \E t \in Threads : HostInvokeEntry(t)
    \/ main_call_app_run
    \/ main_return
    \/ main_unwind
    \/ app_run_step
    \/ app_run_complete
    \/ \E e \in Failures : app_run_panic(e)

Spec == Init /\ [][Next]_vars

\* The body of main is straight-line code on one thread: once its next
\* statement can execute, it does.  Nothing is assumed of the external
\* runtime, which may run for ever.
FairSpec ==
    Spec /\ WF_vars(main_call_app_run) /\ WF_vars(main_return)
         /\ WF_vars(main_unwind)

\* The two-state lifecycle of the bootstrap: Running from the moment
\* app::run has been invoked.
Lifecycle == IF pc \in {"NotStarted", "main"} THEN "NotStarted" ELSE "Running"

TypeOK ==
    /\ debug_assertions \in BOOLEAN
    /\ target_os \in TargetOS
    /\ windows_subsystem \in {"console", "windows"}
    /\ entry_point \in {"process_main", "mobile_entry_point"}
    /\ pc \in {"NotStarted", "main", "app_run", "returned", "unwound"}
    /\ invoked_via \in {"none", "os", "host"}
    /\ console \in {"none", "attached"}
    /\ entry_thread \in Threads \cup {0}
    /\ call_thread \in Threads \cup {0}
    /\ run_status \in {"not_called", "executing", "completed", "panicked"}
    /\ runtime_steps \in 0..MaxRuntimeSteps
    /\ failure \in Failures \cup {0}
    /\ surfaced \in Failures \cup {0}

\* ------------------------------------------------------------------ claims

Started == pc # "NotStarted"
Desktop == ~mobile(target_os)

\* C1: in every build, one invocation of the entry operation makes exactly
\* one call, app::run with no arguments, and the body of main does nothing
\* else before or after it: before the call main has done nothing, from the
\* call on the call is all it has ever done.
C1_ExactlyOneCall ==
    /\ pc \in {"NotStarted", "main"} => trace = <<>>
    /\ pc \in {"app_run", "returned", "unwound"} =>
           trace = <<[op |-> "call", fn |-> "app::run", args |-> <<>>]>>

C1_Witness ==
    /\ pc = "returned"
    /\ Len(trace) = 1
    /\ ~debug_assertions
    /\ mobile(target_os)

\* C2: a release build for a desktop target, launched directly, has no
\* console window.
C2_ReleaseDesktopNoConsole ==
    (~debug_assertions /\ Desktop /\ Started) => console = "none"

C2_Witness ==
    /\ ~debug_assertions
    /\ target_os = "windows"
    /\ invoked_via = "os"
    /\ windows_subsystem = "windows"
    /\ console = "none"

\* C3 as stated: every debug build, once launched, has a console window.
C3_DebugAlwaysConsole ==
    (debug_assertions /\ Started) => console = "attached"

\* C3 as amended: a debug build keeps the default subsystem (the attribute
\* is not applied), so on a Windows target the launched executable has a
\* console window.
C3_DebugDefaultConsole ==
    debug_assertions =>
        /\ windows_subsystem = "console"
        /\ (target_os = "windows" /\ Started) => console = "attached"

C3_Witness ==
    /\ debug_assertions
    /\ target_os = "windows"
    /\ invoked_via = "os"
    /\ console = "attached"

\* C4: the entry operation is registered for the platform host exactly when
\* the target is mobile, and is the conventional process entry point on every
\* other target; it is invoked accordingly.
C4_HostEntryIffMobile ==
    /\ (entry_point = "mobile_entry_point") <=> mobile(target_os)
    /\ Desktop => entry_point = "process_main"
    /\ Started => invoked_via = (IF mobile(target_os) THEN "host" ELSE "os")

C4_Witness ==
    /\ target_os = "android"
    /\ entry_point = "mobile_entry_point"
    /\ invoked_via = "host"
    /\ pc = "returned"

\* C5: the lifecycle only ever moves from NotStarted to Running, it does so
\* in the step that invokes app::run, and once Running the bootstrap takes
\* no further step of its own: it neither leaves Running nor calls again.
C5_LifecycleStep ==
    /\ Lifecycle' # Lifecycle =>
           /\ Lifecycle = "NotStarted"
           /\ Lifecycle' = "Running"
           /\ run_status = "not_called"
           /\ run_status' = "executing"
           /\ trace' = Append(trace, AppRunCall)
    /\ Lifecycle = "Running" =>
           /\ Lifecycle' = "Running"
           /\ trace' = trace

C5_Lifecycle == [][C5_LifecycleStep]_vars

C5_Witness ==
    /\ Lifecycle = "Running"
    /\ pc = "returned"
    /\ runtime_steps > 0

\* C6: no failure exists that did not come from app::run; a failure raised
\* there leaves the entry operation unchanged, and main neither catches it
\* (it never goes on to return normally) nor reports it.
C6_FailureSurfacesUnchanged ==
    /\ surfaced # 0 => (run_status = "panicked" /\ surfaced = failure)
    /\ pc = "unwound" => (failure # 0 /\ surfaced = failure)
    /\ run_status = "panicked" => pc \in {"app_run", "unwound"}
    /\ pc = "returned" => (failure = 0 /\ surfaced = 0)
    /\ run_status = "not_called" => (failure = 0 /\ surfaced = 0)
    /\ \A i \in 1..Len(trace) : trace[i].op \notin {"catch", "log"}

C6_Witness ==
    /\ pc = "unwound"
    /\ failure = NumFailures
    /\ surfaced = NumFailures

\* C7: the subsystem is the one the build configuration determines before
\* the entry operation is dispatched, and no step changes it or the
\* configuration it was determined from.
C7_SubsystemFixed ==
    /\ (pc = "NotStarted" =>
           windows_subsystem = (IF debug_assertions THEN "console"
                                                    ELSE "windows"))
    /\ [][/\ windows_subsystem' = windows_subsystem
          /\ debug_assertions' = debug_assertions
          /\ target_os' = target_os]_vars

C7_Witness ==
    /\ pc = "returned"
    /\ ~debug_assertions
    /\ target_os = "windows"
    /\ windows_subsystem = "windows"

\* C8: app::run is called on the thread the entry operation was invoked
\* on, main starts no thread, main stays inside the call while app::run
\* executes, and main has not completed unless app::run has.
C8_SynchronousOnEntryThread ==
    /\ Lifecycle = "Running" => (call_thread = entry_thread
                                 /\ entry_thread \in Threads)
    /\ Lifecycle = "NotStarted" => call_thread = 0
    /\ \A i \in 1..Len(trace) : trace[i].op # "spawn"
    /\ run_status = "executing" => pc = "app_run"
    /\ pc = "returned" => run_status = "completed"
    /\ pc = "unwound" => run_status = "panicked"

C8_Witness ==
    /\ pc = "returned"
    /\ entry_thread = NumThreads
    /\ call_thread = NumThreads

\* C9: main returns only in a step taken when app::run has returned, and
\* that step does nothing else (no further call, no exit code of its own);
\* once app::run has returned main does return; main has never returned
\* while app::run has not.
C9_ReturnStep ==
    (pc # "returned" /\ pc' = "returned") =>
        /\ run_status = "completed"
        /\ UNCHANGED <<build, invoked_via, console, entry_thread,
                       call_thread, trace, run_status, runtime_steps,
                       failure, surfaced>>

C9_ReturnsIffRunReturns ==
    /\ [][C9_ReturnStep]_vars
    /\ [](pc = "returned" => run_status = "completed")
    /\ (run_status = "completed") ~> (pc = "returned")

C9_Witness ==
    /\ pc = "returned"
    /\ run_status = "completed"
    /\ runtime_steps = MaxRuntimeSteps

\* C10: the subsystem depends on the debug flag alone, the registration on
\* the mobile flag alone, and what main has done depends on its position
\* alone, so it is the same in all four combinations of the flags.
C10_FlagsIndependent ==
    /\ windows_subsystem = (IF debug_assertions THEN "console" ELSE "windows")
    /\ entry_point = (IF target_os \in {"android", "ios"}
                      THEN "mobile_entry_point" ELSE "process_main")
    /\ trace = (IF pc \in {"NotStarted", "main"} THEN <<>>
                                                  ELSE <<AppRunCall>>)
    /\ run_status = "not_called" <=> pc \in {"NotStarted", "main"}

C10_Witness ==
    /\ debug_assertions
    /\ mobile(target_os)
    /\ pc = "returned"
    /\ trace = <<AppRunCall>>

=============================================================================
